---- MODULE Spec2Model ----
(***************************************************************************)
(* Model of pymaker/deployment.py: the Sai test Deployment (snapshot and   *)
(* reset of a test chain) and DssDeployment with its Config (address book  *)
(* parsing, serialisation, price-feed typing, auction listing).            *)
(*                                                                         *)
(* Strings that the code inspects character by character (address-book     *)
(* keys, ilk names) are sequences of one-character strings, so that the    *)
(* regular expressions and the replace() calls are modelled on characters. *)
(***************************************************************************)
EXTENDS Integers, Sequences, FiniteSets, TLC

----------------------------------------------------------------------------
(* Characters and strings *)

\* Python's \w, restricted to the characters that occur in the model.
WordChars ==
    {"A", "B", "C", "D", "E", "F", "G", "H", "I", "J", "K", "L", "M",
     "N", "O", "P", "Q", "R", "S", "T", "U", "V", "W", "X", "Y", "Z",
     "0", "1", "2", "3", "4", "5", "6", "7", "8", "9", "_"}

IsWord(ch) == ch \in WordChars

\* s[a..b], the empty string when a > b.
Slice(s, a, b) == IF a > b THEN << >> ELSE SubSeq(s, a, b)

\* s.startswith(p)
StartsWith(s, p) == Len(s) >= Len(p) /\ SubSeq(s, 1, Len(p)) = p

\* Does p occur in s at position i (1-based)?
OccursAt(s, p, i) ==
    /\ i >= 1
    /\ i + Len(p) - 1 <= Len(s)
    /\ SubSeq(s, i, i + Len(p) - 1) = p

\* s.replace(a, b) for single characters a and b.
Replace(s, a, b) == [i \in 1..Len(s) |-> IF s[i] = a THEN b ELSE s[i]]

\* The last index of the maximal run of word characters that starts at i;
\* i - 1 when s[i] is not a word character or i is past the end.
RECURSIVE WordRunEnd(_, _)
WordRunEnd(s, i) ==
    IF i <= Len(s) /\ IsWord(s[i]) THEN WordRunEnd(s, i + 1) ELSE i - 1

\* String literals of the source.
K_MCD_PAUSE == <<"M", "C", "D", "_", "P", "A", "U", "S", "E">>
K_MCD_VAT == <<"M", "C", "D", "_", "V", "A", "T">>
K_MCD_VOW == <<"M", "C", "D", "_", "V", "O", "W">>
K_MCD_JUG == <<"M", "C", "D", "_", "J", "U", "G">>
K_MCD_CAT == <<"M", "C", "D", "_", "C", "A", "T">>
K_MCD_DAI == <<"M", "C", "D", "_", "D", "A", "I">>
K_MCD_JOIN_DAI == <<"M", "C", "D", "_", "J", "O", "I", "N", "_", "D", "A", "I">>
K_MCD_FLAP == <<"M", "C", "D", "_", "F", "L", "A", "P">>
K_MCD_FLOP == <<"M", "C", "D", "_", "F", "L", "O", "P">>
K_MCD_POT == <<"M", "C", "D", "_", "P", "O", "T">>
K_MCD_GOV == <<"M", "C", "D", "_", "G", "O", "V">>
K_MCD_SPOT == <<"M", "C", "D", "_", "S", "P", "O", "T">>
K_MCD_ADM == <<"M", "C", "D", "_", "A", "D", "M">>
K_MCD_ESM == <<"M", "C", "D", "_", "E", "S", "M">>
K_MCD_END == <<"M", "C", "D", "_", "E", "N", "D">>
K_PROXY_REGISTRY == <<"P", "R", "O", "X", "Y", "_", "R", "E", "G", "I", "S", "T", "R", "Y">>
K_PROXY_ACTIONS_DSR == <<"P", "R", "O", "X", "Y", "_", "A", "C", "T", "I", "O", "N", "S", "_", "D", "S", "R">>
K_CDP_MANAGER == <<"C", "D", "P", "_", "M", "A", "N", "A", "G", "E", "R">>
K_DSR_MANAGER == <<"D", "S", "R", "_", "M", "A", "N", "A", "G", "E", "R">>
S_MCD_FLIP_ == <<"M", "C", "D", "_", "F", "L", "I", "P", "_">>
S_MCD_JOIN_ == <<"M", "C", "D", "_", "J", "O", "I", "N", "_">>
S_PIP_ == <<"P", "I", "P", "_">>
S_ETH == <<"E", "T", "H">>
S_UNIV2 == <<"U", "N", "I", "V", "2">>
S_USDC == <<"U", "S", "D", "C">>
S_WBTC == <<"W", "B", "T", "C">>
S_TUSD == <<"T", "U", "S", "D">>
S_USDT == <<"U", "S", "D", "T">>
S_GUSD == <<"G", "U", "S", "D">>
S_RENBTC == <<"R", "E", "N", "B", "T", "C">>

----------------------------------------------------------------------------
(* State *)

VARIABLES
    keys,         \* argument of Config._infer_collaterals_from_addresses
    inferred,     \* its return value, NotCalled before the call
    web3_net,     \* web3.net.version, the node's network id
    config,       \* a DssDeployment.Config built by the constructor
    conf,         \* JSON text of an address book
    loaded,       \* outcome of Config.from_json(web3, conf)
    dss,          \* outcome of DssDeployment.from_json / from_node
    files,        \* content of config/<network>-addresses.json
    kicked,       \* the node: active auction ids of each auction contract
    active,       \* return value of DssDeployment.active_auctions
    chain,        \* the node: contract storage and clock of the test chain
    snapshots,    \* the node: live snapshots, id -> captured state
    next_snapshot,\* the node: id the next evm_snapshot returns
    snapshot_id,  \* Deployment.snapshot_id
    reverted      \* result of the last evm_revert request

vars == <<keys, inferred, web3_net, config, conf, loaded, dss, files,
          kicked, active, chain, snapshots, next_snapshot, snapshot_id,
          reverted>>

inferVars == <<keys, inferred>>
dssVars == <<web3_net, config, conf, loaded, dss, files, kicked, active>>
saiVars == <<chain, snapshots, next_snapshot, snapshot_id, reverted>>

\* A variable that holds a return value: NotCalled before the call, then
\* Returned(the value).
NotCalled == [called |-> FALSE]
Returned(v) == [called |-> TRUE, value |-> v]

\* A variable that holds an object that may not exist yet.
Unset == [set |-> FALSE]
Val(v) == [set |-> TRUE, value |-> v]

\* Python's None where a handle is expected.
None == [kind |-> "None"]

----------------------------------------------------------------------------
(* Config._infer_collaterals_from_addresses *)

NoMatch == [found |-> FALSE]

\* GreedyGroup2 that takes as few characters as it can.
RECURSIVE LazyFrom(_, _, _, _)
LazyFrom(key, b, e, g) ==
    IF b + g + 1 > e THEN 0
    ELSE IF key[b + g] = "_" THEN g
    ELSE LazyFrom(key, b, e, g + 1)

GreedyGroup2_lazy(key, b, e, g) == LazyFrom(key, b, e, 1)

\* The greedy (\w+) of r'MCD_FLIP_((\w+)_\w+)': the run of word characters
\* is key[b..e]; group 2 first takes g = e - b + 1 characters and gives
\* characters back until '_' and one more word character follow it.
\* Returns the length of group 2, or 0 when no length matches.
RECURSIVE GreedyGroup2(_, _, _, _)
GreedyGroup2(key, b, e, g) ==
    IF g < 1 THEN 0
    ELSE IF b + g + 1 <= e /\ key[b + g] = "_" THEN g
    ELSE GreedyGroup2(key, b, e, g - 1)

\* re.search(r'MCD_FLIP_((\w+)_\w+)', key), scanning start positions from p.
RECURSIVE SearchFlipSuffix(_, _)
SearchFlipSuffix(key, p) ==
    IF p > Len(key) THEN NoMatch
    ELSE IF OccursAt(key, S_MCD_FLIP_, p)
    THEN LET b == p + Len(S_MCD_FLIP_)
             e == WordRunEnd(key, b)
             g == GreedyGroup2(key, b, e, e - b + 1)
         IN  IF g > 0
             THEN [found |-> TRUE, group1 |-> Slice(key, b, e),
                   group2 |-> Slice(key, b, b + g - 1)]
             ELSE SearchFlipSuffix(key, p + 1)
    ELSE SearchFlipSuffix(key, p + 1)

\* re.search(r'MCD_FLIP_(\w+)', key), scanning start positions from p.
RECURSIVE SearchFlip(_, _)
SearchFlip(key, p) ==
    IF p > Len(key) THEN NoMatch
    ELSE IF OccursAt(key, S_MCD_FLIP_, p)
    THEN LET b == p + Len(S_MCD_FLIP_)
             e == WordRunEnd(key, b)
         IN  IF e >= b
             THEN [found |-> TRUE, group1 |-> Slice(key, b, e)]
             ELSE SearchFlip(key, p + 1)
    ELSE SearchFlip(key, p + 1)

\* The body of the for loop: what one key appends to the list.
InferOne(key) ==
    LET m1 == SearchFlipSuffix(key, 1)
        m2 == SearchFlip(key, 1)
    IN  IF m1.found THEN << <<m1.group1, m1.group2>> >>
        ELSE IF m2.found THEN << <<m2.group1, m2.group1>> >>
        ELSE << >>

RECURSIVE _infer_collaterals_from_addresses(_)
_infer_collaterals_from_addresses(ks) ==
    IF ks = << >> THEN << >>
    ELSE InferOne(Head(ks)) \o _infer_collaterals_from_addresses(Tail(ks))

----------------------------------------------------------------------------
(* Python dicts (insertion ordered), JSON text, addresses *)

\* A dict is a sequence of entries [k, v] with pairwise different keys, in
\* insertion order.
Has(d, k) == \E i \in 1..Len(d) : d[i].k = k
Get(d, k) == d[CHOOSE i \in 1..Len(d) : d[i].k = k].v
DictKeys(d) == [i \in 1..Len(d) |-> d[i].k]
DictValues(d) == [i \in 1..Len(d) |-> d[i].v]

\* d[k] = v: an existing key keeps its position and takes the new value, a
\* new key goes to the end.
Put(d, k, v) ==
    IF Has(d, k)
    THEN [i \in 1..Len(d) |-> IF d[i].k = k THEN [k |-> k, v |-> v] ELSE d[i]]
    ELSE Append(d, [k |-> k, v |-> v])

\* json.dumps of a dict of strings: the members "key": "value" in order.
json_dumps(d) == [i \in 1..Len(d) |-> <<d[i].k, d[i].v>>]

\* json.loads of an object: members are inserted in order, a repeated
\* name overwrites.
RECURSIVE LoadMembers(_, _)
LoadMembers(text, d) ==
    IF text = << >> THEN d
    ELSE LoadMembers(Tail(text), Put(d, Head(text)[1], Head(text)[2]))

json_loads(text) == LoadMembers(text, << >>)

\* An Address is the number it denotes; in JSON it is a hex string, here
\* the pair <<"0x", number>>.
Address(hex) == hex[2]
AddressString(a) == <<"0x", a>>

KeyError == [ok |-> FALSE, error |-> "KeyError"]
AttributeError == [ok |-> FALSE, error |-> "AttributeError"]

----------------------------------------------------------------------------
(* DssDeployment.Config *)

\* NETWORKS without the entry for kovan.
NETWORKS_no_kovan(version) ==
    IF version = "1" THEN "mainnet" ELSE "testnet"

NETWORKS(version) ==
    IF version = "1" THEN "mainnet"
    ELSE IF version = "42" THEN "kovan"
    ELSE "testnet"

\* Vat.ilk(name): the ilk read from the vat carries the name it was asked
\* for.
VatIlk(name) == [name |-> name]

\* The address-book keys Config.from_json reads before the collaterals, in
\* the order of the reads.
FromJsonCoreKeys ==
    <<
      K_MCD_PAUSE, K_MCD_VAT, K_MCD_VOW, K_MCD_JUG, K_MCD_CAT,
      K_MCD_DAI, K_MCD_JOIN_DAI, K_MCD_FLAP, K_MCD_FLOP, K_MCD_POT,
      K_MCD_GOV, K_MCD_SPOT, K_MCD_ADM, K_MCD_ESM, K_MCD_END,
      K_PROXY_REGISTRY, K_PROXY_ACTIONS_DSR, K_CDP_MANAGER,
      K_DSR_MANAGER
    >>

\* Gem with the price feed's key in place of the token's.
Gem_pip_key(symbol, c) ==
    IF symbol = S_ETH
    THEN [kind |-> "DSEthToken",
          address |-> Address(Get(c, S_PIP_ \o symbol))]
    ELSE [kind |-> "DSToken", address |-> Address(Get(c, S_PIP_ \o symbol))]

\* The gem token of a collateral.
Gem(symbol, c) ==
    IF symbol = S_ETH
    THEN [kind |-> "DSEthToken", address |-> Address(Get(c, symbol))]
    ELSE [kind |-> "DSToken", address |-> Address(Get(c, symbol))]

\* The join adapter of a collateral.
Adapter(ilk, symbol, c) ==
    IF symbol \in {S_USDC, S_WBTC, S_TUSD, S_USDT, S_GUSD, S_RENBTC}
    THEN [kind |-> "GemJoin5",
          address |-> Address(Get(c, S_MCD_JOIN_ \o ilk))]
    ELSE [kind |-> "GemJoin",
          address |-> Address(Get(c, S_MCD_JOIN_ \o ilk))]

\* Pip without the branch for Uniswap LP tokens.
Pip_no_univ2(version, symbol, c) ==
    LET pip_address == Address(Get(c, S_PIP_ \o symbol))
        network == NETWORKS(version)
    IN  IF network = "testnet"
        THEN [kind |-> "DSValue", address |-> pip_address]
        ELSE [kind |-> "OSM", address |-> pip_address]

\* The price feed of a collateral.
Pip(version, symbol, c) ==
    LET pip_address == Address(Get(c, S_PIP_ \o symbol))
        network == NETWORKS(version)
    IN  IF network = "testnet"
        THEN [kind |-> "DSValue", address |-> pip_address]
        ELSE IF StartsWith(symbol, S_UNIV2)
        THEN [kind |-> "Univ2LpOSM", address |-> pip_address]
        ELSE [kind |-> "OSM", address |-> pip_address]

\* LoadCollaterals that passes over a collateral with an absent key.
RECURSIVE LoadCollaterals_skip(_, _, _, _)
LoadCollaterals_skip(version, c, names, collaterals) ==
    IF names = << >> THEN [ok |-> TRUE, collaterals |-> collaterals]
    ELSE LET name == Head(names)
             ilk == VatIlk(Replace(name[1], "_", "-"))
         IN  IF \/ ~Has(c, name[2])
                \/ ~Has(c, S_MCD_JOIN_ \o name[1])
                \/ ~Has(c, S_PIP_ \o name[2])
                \/ ~Has(c, S_MCD_FLIP_ \o name[1])
             THEN LoadCollaterals_skip(version, c, Tail(names), collaterals)
             ELSE LoadCollaterals_skip(version, c, Tail(names),
                      Put(collaterals, ilk.name,
                          [ilk |-> ilk,
                           gem |-> Gem(name[2], c),
                           adapter |-> Adapter(name[1], name[2], c),
                           flipper |->
                               Address(Get(c, S_MCD_FLIP_ \o name[1])),
                           pip |-> Pip(version, name[2], c)]))

\* The for loop of Config.from_json over the inferred (ilk, symbol) pairs;
\* a lookup of an absent key raises KeyError and ends the loop.
RECURSIVE LoadCollaterals(_, _, _, _)
LoadCollaterals(version, c, names, collaterals) ==
    IF names = << >> THEN [ok |-> TRUE, collaterals |-> collaterals]
    ELSE LET name == Head(names)
             ilk == VatIlk(Replace(name[1], "_", "-"))
         IN  IF \/ ~Has(c, name[2])
                \/ ~Has(c, S_MCD_JOIN_ \o name[1])
                \/ ~Has(c, S_PIP_ \o name[2])
                \/ ~Has(c, S_MCD_FLIP_ \o name[1])
             THEN KeyError
             ELSE LoadCollaterals(version, c, Tail(names),
                      Put(collaterals, ilk.name,
                          [ilk |-> ilk,
                           gem |-> Gem(name[2], c),
                           adapter |-> Adapter(name[1], name[2], c),
                           flipper |->
                               Address(Get(c, S_MCD_FLIP_ \o name[1])),
                           pip |-> Pip(version, name[2], c)]))

\* Config.from_json(web3, conf) with web3.net.version = version.
Config_from_json(version, text) ==
    LET c == json_loads(text)
    IN  IF \E i \in 1..Len(FromJsonCoreKeys) : ~Has(c, FromJsonCoreKeys[i])
        THEN KeyError
        ELSE LET cs == LoadCollaterals(version, c,
                           _infer_collaterals_from_addresses(DictKeys(c)),
                           << >>)
             IN  IF ~cs.ok THEN KeyError
                 ELSE [ok |-> TRUE,
                       config |->
                         [
                          pause |-> Address(Get(c, K_MCD_PAUSE)),
                          vat |-> Address(Get(c, K_MCD_VAT)),
                          vow |-> Address(Get(c, K_MCD_VOW)),
                          jug |-> Address(Get(c, K_MCD_JUG)),
                          cat |-> Address(Get(c, K_MCD_CAT)),
                          dai |-> Address(Get(c, K_MCD_DAI)),
                          dai_join |-> Address(Get(c, K_MCD_JOIN_DAI)),
                          flapper |-> Address(Get(c, K_MCD_FLAP)),
                          flopper |-> Address(Get(c, K_MCD_FLOP)),
                          pot |-> Address(Get(c, K_MCD_POT)),
                          mkr |-> Address(Get(c, K_MCD_GOV)),
                          spotter |-> Address(Get(c, K_MCD_SPOT)),
                          ds_chief |-> Address(Get(c, K_MCD_ADM)),
                          esm |-> Address(Get(c, K_MCD_ESM)),
                          end |-> Address(Get(c, K_MCD_END)),
                          proxy_registry |-> Address(Get(c, K_PROXY_REGISTRY)),
                          dss_proxy_actions |-> Address(Get(c, K_PROXY_ACTIONS_DSR)),
                          cdp_manager |-> Address(Get(c, K_CDP_MANAGER)),
                          dsr_manager |-> Address(Get(c, K_DSR_MANAGER)),
                          collaterals |-> cs.collaterals]]

\* re.search(r'(\w+)(?:-\w+)?', name), scanning start positions from p:
\* group 1 is the first run of word characters of the name.
RECURSIVE SearchSymbol(_, _)
SearchSymbol(name, p) ==
    IF p > Len(name) THEN NoMatch
    ELSE IF IsWord(name[p])
    THEN [found |-> TRUE, group1 |-> Slice(name, p, WordRunEnd(name, p))]
    ELSE SearchSymbol(name, p + 1)

\* The dict literal that opens Config.to_dict.
ToDictCore(cfg) ==
    <<
      [k |-> K_MCD_PAUSE, v |-> AddressString(cfg.pause)],
      [k |-> K_MCD_VAT, v |-> AddressString(cfg.vat)],
      [k |-> K_MCD_VOW, v |-> AddressString(cfg.vow)],
      [k |-> K_MCD_JUG, v |-> AddressString(cfg.jug)],
      [k |-> K_MCD_CAT, v |-> AddressString(cfg.cat)],
      [k |-> K_MCD_FLAP, v |-> AddressString(cfg.flapper)],
      [k |-> K_MCD_FLOP, v |-> AddressString(cfg.flopper)],
      [k |-> K_MCD_POT, v |-> AddressString(cfg.pot)],
      [k |-> K_MCD_DAI, v |-> AddressString(cfg.dai)],
      [k |-> K_MCD_JOIN_DAI, v |-> AddressString(cfg.dai_join)],
      [k |-> K_MCD_GOV, v |-> AddressString(cfg.mkr)],
      [k |-> K_MCD_SPOT, v |-> AddressString(cfg.spotter)],
      [k |-> K_MCD_ADM, v |-> AddressString(cfg.ds_chief)],
      [k |-> K_MCD_ESM, v |-> AddressString(cfg.esm)],
      [k |-> K_MCD_END, v |-> AddressString(cfg.end)],
      [k |-> K_PROXY_REGISTRY, v |-> AddressString(cfg.proxy_registry)],
      [k |-> K_PROXY_ACTIONS_DSR, v |-> AddressString(cfg.dss_proxy_actions)],
      [k |-> K_CDP_MANAGER, v |-> AddressString(cfg.cdp_manager)],
      [k |-> K_DSR_MANAGER, v |-> AddressString(cfg.dsr_manager)]
    >>

\* The for loop of Config.to_dict over self.collaterals.values();
\* match.group(1) on a name without a word character raises.
RECURSIVE DumpCollaterals(_, _)
DumpCollaterals(cols, conf_dict) ==
    IF cols = << >> THEN [ok |-> TRUE, dict |-> conf_dict]
    ELSE LET collateral == Head(cols)
             match == SearchSymbol(collateral.ilk.name, 1)
         IN  IF ~match.found THEN AttributeError
             ELSE LET name == <<Replace(collateral.ilk.name, "-", "_"),
                                match.group1>>
                      d1 == Put(conf_dict, name[2],
                                AddressString(collateral.gem.address))
                      d2 == IF collateral.pip # None
                            THEN Put(d1, S_PIP_ \o name[2],
                                     AddressString(collateral.pip.address))
                            ELSE d1
                      d3 == Put(d2, S_MCD_JOIN_ \o name[1],
                                AddressString(collateral.adapter.address))
                      d4 == Put(d3, S_MCD_FLIP_ \o name[1],
                                AddressString(collateral.flipper))
                  IN  DumpCollaterals(Tail(cols), d4)

Config_to_dict(cfg) ==
    DumpCollaterals(DictValues(cfg.collaterals), ToDictCore(cfg))

Config_to_json(cfg) ==
    LET d == Config_to_dict(cfg)
    IN  IF d.ok THEN [ok |-> TRUE, text |-> json_dumps(d.dict)] ELSE d

----------------------------------------------------------------------------
(* DssDeployment *)

\* DssDeployment.__init__
DssDeployment(version, cfg) ==
    [web3 |-> version, config |-> cfg,
     pause |-> cfg.pause, vat |-> cfg.vat, vow |-> cfg.vow,
     jug |-> cfg.jug, cat |-> cfg.cat, flapper |-> cfg.flapper,
     flopper |-> cfg.flopper, pot |-> cfg.pot, dai |-> cfg.dai,
     dai_adapter |-> cfg.dai_join, mkr |-> cfg.mkr,
     collaterals |-> cfg.collaterals, spotter |-> cfg.spotter,
     ds_chief |-> cfg.ds_chief, esm |-> cfg.esm, end |-> cfg.end,
     proxy_registry |-> cfg.proxy_registry,
     dss_proxy_actions |-> cfg.dss_proxy_actions,
     cdp_manager |-> cfg.cdp_manager, dsr_manager |-> cfg.dsr_manager]

DssDeployment_from_json(version, text) ==
    LET c == Config_from_json(version, text)
    IN  IF c.ok THEN [ok |-> TRUE, dss |-> DssDeployment(version, c.config)]
        ELSE c

\* DssDeployment.from_network: the file name it opens.
AddressesPath(network) == network \o "-addresses.json"

DssDeployment_from_node(version, fs) ==
    LET network == NETWORKS(version)
    IN  DssDeployment_from_json(version, fs[AddressesPath(network)])

\* The for loop of DssDeployment.active_auctions.
RECURSIVE FlipAuctions(_, _, _)
FlipAuctions(cols, node, flips) ==
    IF cols = << >> THEN flips
    ELSE FlipAuctions(Tail(cols), node,
             Put(flips, Head(cols).ilk.name, node[Head(cols).flipper]))

\* active_auctions with the flapper's and the flopper's auctions exchanged.
DssDeployment_active_auctions_swapped(self, node) ==
    [flips |-> FlipAuctions(DictValues(self.collaterals), node, << >>),
     flaps |-> node[self.flopper],
     flops |-> node[self.flapper]]

DssDeployment_active_auctions(self, node) ==
    [flips |-> FlipAuctions(DictValues(self.collaterals), node, << >>),
     flaps |-> node[self.flapper],
     flops |-> node[self.flopper]]

----------------------------------------------------------------------------
(* Values the variables take while an operation is not under study *)

Idle == "Idle"

InferIdle == keys = Idle /\ inferred = Idle
DssIdle ==
    /\ web3_net = Idle /\ config = Idle /\ conf = Idle /\ loaded = Idle
    /\ dss = Idle /\ files = Idle /\ kicked = Idle /\ active = Idle
SaiIdle ==
    /\ chain = Idle /\ snapshots = Idle /\ next_snapshot = Idle
    /\ snapshot_id = Idle /\ reverted = Idle

----------------------------------------------------------------------------
(* Specification of Config._infer_collaterals_from_addresses *)

MaxPieces == 5

\* Keys are put together from these pieces.
Pieces == {S_MCD_FLIP_, <<"A">>, <<"_">>, <<"-">>, <<"B", "_", "C">>}

RECURSIVE PieceStrings(_)
PieceStrings(n) ==
    IF n = 0 THEN {<< >>}
    ELSE LET shorter == PieceStrings(n - 1)
         IN  shorter \cup {x \o y : x \in shorter, y \in Pieces}

\* Keys of a real address book, to go before or after a generated key.
BookKeys == {K_MCD_VAT, S_MCD_FLIP_ \o <<"E", "T", "H", "_", "A">>, S_MCD_FLIP_ \o <<"B", "A", "T">>}

KeyLists ==
    LET generated == PieceStrings(MaxPieces)
    IN  {<<k>> : k \in generated}
          \cup {<<k, b>> : k \in generated, b \in BookKeys}
          \cup {<<b, k>> : k \in generated, b \in BookKeys}

InitInfer ==
    /\ keys \in KeyLists
    /\ inferred = NotCalled
    /\ DssIdle /\ SaiIdle

InferCollaterals ==
    /\ inferred = NotCalled
    /\ inferred' = Returned(_infer_collaterals_from_addresses(keys))
    /\ UNCHANGED <<keys, dssVars, saiVars>>

NextInfer == InferCollaterals

SpecInfer == InitInfer /\ [][NextInfer]_vars

(* The claimed result, stated on positions of the key. *)

\* The positions right after an occurrence of 'MCD_FLIP_' at which a word
\* character stands.
FlipRunStarts(key) ==
    {b \in 1..Len(key) :
        OccursAt(key, S_MCD_FLIP_, b - Len(S_MCD_FLIP_)) /\ IsWord(key[b])}

\* The run of word characters of key that starts at b.
RunAt(key, b) ==
    LET e == CHOOSE j \in b..Len(key) :
                 /\ \A i \in b..j : IsWord(key[i])
                 /\ j = Len(key) \/ ~IsWord(key[j + 1])
    IN  SubSeq(key, b, e)

\* The underscores of ilk with at least one character on each side.
Splits(ilk) == {i \in 2..(Len(ilk) - 1) : ilk[i] = "_"}

Min(S) == CHOOSE x \in S : \A y \in S : x <= y
Max(S) == CHOOSE x \in S : \A y \in S : x >= y

SymbolOf(ilk) ==
    IF Splits(ilk) = {} THEN ilk ELSE SubSeq(ilk, 1, Max(Splits(ilk)) - 1)

\* The keys that yield a pair, in order, each mapped by PairOf.
PairsOf(ks, PairOf(_)) ==
    LET hits == {i \in 1..Len(ks) : FlipRunStarts(ks[i]) # {}}
        Nth(n) == CHOOSE i \in hits : Cardinality({j \in hits : j < i}) = n - 1
    IN  [n \in 1..Cardinality(hits) |-> PairOf(ks[Nth(n)])]

\* The ilk is the run after the first 'MCD_FLIP_' that a word character
\* follows.
FirstRunPair(key) ==
    LET ilk == RunAt(key, Min(FlipRunStarts(key)))
    IN  <<ilk, SymbolOf(ilk)>>

\* The ilk is the run after the first 'MCD_FLIP_' whose run can be split,
\* and after the first 'MCD_FLIP_' that a word character follows when no
\* run can be split.
SplitRunPair(key) ==
    LET splittable == {b \in FlipRunStarts(key) : Splits(RunAt(key, b)) # {}}
        ilk == IF splittable # {} THEN RunAt(key, Min(splittable))
               ELSE RunAt(key, Min(FlipRunStarts(key)))
    IN  <<ilk, SymbolOf(ilk)>>

\* C5 as stated: the inferred list has one pair per key in which
\* 'MCD_FLIP_' is followed by a word character, in key order; the ilk is
\* the run of word characters after the first such 'MCD_FLIP_' and the
\* symbol is the ilk cut at its last underscore that has a character on
\* each side.
C5_InferFirstRun ==
    inferred.called => inferred.value = PairsOf(keys, FirstRunPair)

\* C5 amended: as C5, but the ilk is the run after the first 'MCD_FLIP_'
\* whose run has an underscore with a character on each side; only when no
\* occurrence has one is it the run after the first 'MCD_FLIP_' that a word
\* character follows.
C5_InferSplitRun ==
    inferred.called => inferred.value = PairsOf(keys, SplitRunPair)

\* A list of two keys was processed: one yields a pair whose symbol is
\* shorter than its ilk, the other yields nothing.
C5_Witness ==
    /\ inferred.called
    /\ Len(keys) = 2
    /\ Len(inferred.value) = 1
    /\ inferred.value[1][1] # inferred.value[1][2]

----------------------------------------------------------------------------
(* Specification of Config.from_json and DssDeployment.from_json on an      *)
(* address book                                                            *)

MaxMissing == 1

\* web3.net.version of the nodes considered: mainnet, kovan, two others.
Nets == {"1", "42", "5", "1337"}

\* The collateral types address books are written for, as they appear in
\* the keys.
BookIlks == {<<"E", "T", "H", "_", "A">>, <<"E", "T", "H", "_", "B">>, <<"U", "N", "I", "V", "2", "_", "X", "_", "A">>, <<"U", "S", "D", "C">>}

\* The keys a complete address book has for one collateral type.
IlkBookKeys(ilk) ==
    {SymbolOf(ilk), S_PIP_ \o SymbolOf(ilk), S_MCD_JOIN_ \o ilk,
     S_MCD_FLIP_ \o ilk}

\* The 19 keys every address book has.
CoreBookKeys ==
    {
     <<"M", "C", "D", "_", "P", "A", "U", "S", "E">>,
     <<"M", "C", "D", "_", "V", "A", "T">>,
     <<"M", "C", "D", "_", "V", "O", "W">>,
     <<"M", "C", "D", "_", "J", "U", "G">>,
     <<"M", "C", "D", "_", "C", "A", "T">>,
     <<"M", "C", "D", "_", "D", "A", "I">>,
     <<"M", "C", "D", "_", "J", "O", "I", "N", "_", "D", "A", "I">>,
     <<"M", "C", "D", "_", "F", "L", "A", "P">>,
     <<"M", "C", "D", "_", "F", "L", "O", "P">>,
     <<"M", "C", "D", "_", "P", "O", "T">>,
     <<"M", "C", "D", "_", "G", "O", "V">>,
     <<"M", "C", "D", "_", "S", "P", "O", "T">>,
     <<"M", "C", "D", "_", "A", "D", "M">>,
     <<"M", "C", "D", "_", "E", "S", "M">>,
     <<"M", "C", "D", "_", "E", "N", "D">>,
     <<"P", "R", "O", "X", "Y", "_", "R", "E", "G", "I", "S", "T", "R", "Y">>,
     <<"P", "R", "O", "X", "Y", "_", "A", "C", "T", "I", "O", "N", "S", "_", "D", "S", "R">>,
     <<"C", "D", "P", "_", "M", "A", "N", "A", "G", "E", "R">>,
     <<"D", "S", "R", "_", "M", "A", "N", "A", "G", "E", "R">>
    }

\* A key left behind by an earlier deployment.
StaleKey == <<"O", "L", "D", "-", "M", "C", "D", "_", "F", "L", "I", "P", "_", "E", "T", "H", "_", "B">>

\* All keys in the order in which a book lists them; the address under a
\* key is its position here, so that no two keys share an address.
BookKeyOrder ==
    <<
     <<"E", "T", "H">>,
     <<"P", "I", "P", "_", "E", "T", "H">>,
     <<"M", "C", "D", "_", "J", "O", "I", "N", "_", "E", "T", "H", "_", "A">>,
     <<"M", "C", "D", "_", "F", "L", "I", "P", "_", "E", "T", "H", "_", "A">>,
     <<"M", "C", "D", "_", "J", "O", "I", "N", "_", "E", "T", "H", "_", "B">>,
     <<"M", "C", "D", "_", "F", "L", "I", "P", "_", "E", "T", "H", "_", "B">>,
     <<"M", "C", "D", "_", "P", "A", "U", "S", "E">>,
     <<"M", "C", "D", "_", "V", "A", "T">>,
     <<"M", "C", "D", "_", "V", "O", "W">>,
     <<"M", "C", "D", "_", "J", "U", "G">>,
     <<"M", "C", "D", "_", "C", "A", "T">>,
     <<"M", "C", "D", "_", "D", "A", "I">>,
     <<"M", "C", "D", "_", "J", "O", "I", "N", "_", "D", "A", "I">>,
     <<"M", "C", "D", "_", "F", "L", "A", "P">>,
     <<"M", "C", "D", "_", "F", "L", "O", "P">>,
     <<"M", "C", "D", "_", "P", "O", "T">>,
     <<"U", "N", "I", "V", "2", "_", "X">>,
     <<"P", "I", "P", "_", "U", "N", "I", "V", "2", "_", "X">>,
     <<"M", "C", "D", "_", "J", "O", "I", "N", "_", "U", "N", "I", "V", "2", "_", "X", "_", "A">>,
     <<"M", "C", "D", "_", "F", "L", "I", "P", "_", "U", "N", "I", "V", "2", "_", "X", "_", "A">>,
     <<"M", "C", "D", "_", "G", "O", "V">>,
     <<"M", "C", "D", "_", "S", "P", "O", "T">>,
     <<"M", "C", "D", "_", "A", "D", "M">>,
     <<"M", "C", "D", "_", "E", "S", "M">>,
     <<"M", "C", "D", "_", "E", "N", "D">>,
     <<"P", "R", "O", "X", "Y", "_", "R", "E", "G", "I", "S", "T", "R", "Y">>,
     <<"P", "R", "O", "X", "Y", "_", "A", "C", "T", "I", "O", "N", "S", "_", "D", "S", "R">>,
     <<"C", "D", "P", "_", "M", "A", "N", "A", "G", "E", "R">>,
     <<"D", "S", "R", "_", "M", "A", "N", "A", "G", "E", "R">>,
     <<"U", "S", "D", "C">>,
     <<"P", "I", "P", "_", "U", "S", "D", "C">>,
     <<"M", "C", "D", "_", "J", "O", "I", "N", "_", "U", "S", "D", "C">>,
     <<"M", "C", "D", "_", "F", "L", "I", "P", "_", "U", "S", "D", "C">>,
     <<"O", "L", "D", "-", "M", "C", "D", "_", "F", "L", "I", "P", "_", "E", "T", "H", "_", "B">>
    >>

Reverse(q) == [i \in 1..Len(q) |-> q[Len(q) + 1 - i]]

\* The JSON text with exactly the keys of the set ks.
BookText(ks, base) ==
    LET all == [i \in 1..Len(BookKeyOrder) |->
                   <<BookKeyOrder[i], AddressString(base + i)>>]
        Listed(member) == member[1] \in ks
    IN  SelectSeq(all, Listed)

\* The subsets of S with at most n elements.
RECURSIVE SubsetsUpTo(_, _)
SubsetsUpTo(S, n) ==
    IF n = 0 THEN {{}}
    ELSE LET smaller == SubsetsUpTo(S, n - 1)
         IN  smaller \cup {m \cup {x} : m \in smaller, x \in S}

\* The books: complete for some collateral types, with or without the
\* stale key, with at most MaxMissing keys missing.
BookKeySets ==
    {(CoreBookKeys \cup UNION {IlkBookKeys(i) : i \in ilks} \cup stale)
         \ missing :
       ilks \in SUBSET BookIlks,
       stale \in {{}, {StaleKey}},
       missing \in SubsetsUpTo(CoreBookKeys
                                \cup UNION {IlkBookKeys(i) : i \in BookIlks},
                              MaxMissing)}

Books ==
    {BookText(ks, 0) : ks \in BookKeySets}
      \cup {Reverse(BookText(ks, 0)) : ks \in BookKeySets}

InitLoad ==
    /\ web3_net \in Nets
    /\ conf \in {Val(b) : b \in Books}
    /\ config = Unset
    /\ loaded = NotCalled
    /\ dss = NotCalled
    /\ files = Idle /\ kicked = Idle /\ active = Idle
    /\ InferIdle /\ SaiIdle

\* Config.from_json(web3, conf)
ConfigFromJson ==
    /\ conf.set
    /\ loaded = NotCalled
    /\ loaded' = Returned(Config_from_json(web3_net, conf.value))
    /\ UNCHANGED <<web3_net, config, conf, dss, files, kicked, active,
                   inferVars, saiVars>>

\* DssDeployment.from_json(web3, conf)
DssFromJson ==
    /\ conf.set
    /\ dss = NotCalled
    /\ dss' = Returned(DssDeployment_from_json(web3_net, conf.value))
    /\ UNCHANGED <<web3_net, config, conf, loaded, files, kicked, active,
                   inferVars, saiVars>>

NextLoad == ConfigFromJson \/ DssFromJson

SpecLoad == InitLoad /\ [][NextLoad]_vars

(* The address book as the claims read it: conf[k] of the JSON text. *)

BookHas(text, k) == \E i \in 1..Len(text) : text[i][1] = k
BookAddress(text, k) ==
    (CHOOSE member \in {text[i] : i \in 1..Len(text)} : member[1] = k)[2][2]

\* The <ILK> of the keys MCD_FLIP_<ILK> of the book: non-empty runs of word
\* characters.
FlipIlks(text) ==
    {SubSeq(text[i][1], Len(S_MCD_FLIP_) + 1, Len(text[i][1])) :
        i \in {j \in 1..Len(text) :
                 /\ StartsWith(text[j][1], S_MCD_FLIP_)
                 /\ Len(text[j][1]) > Len(S_MCD_FLIP_)
                 /\ \A n \in 1..Len(text[j][1]) : IsWord(text[j][1][n])}}

\* The name under which the collateral of <ILK> is stored.
IlkName(ilk) == [i \in 1..Len(ilk) |-> IF ilk[i] = "_" THEN "-" ELSE ilk[i]]

\* C3: in a Config that Config.from_json returns, the collaterals are those
\* of the keys MCD_FLIP_<ILK> of the book, each stored under the ilk name
\* (<ILK> with '-' for '_'), and each has the flipper conf[MCD_FLIP_<ILK>],
\* the adapter conf[MCD_JOIN_<ILK>], the pip conf[PIP_<SYMBOL>] and the gem
\* conf[<SYMBOL>].
C3_ConsistentQuadruple ==
    (loaded.called /\ loaded.value.ok) =>
        LET text == conf.value
            cols == loaded.value.config.collaterals
        IN  /\ {cols[i].k : i \in 1..Len(cols)}
                   = {IlkName(ilk) : ilk \in FlipIlks(text)}
            /\ \A ilk \in FlipIlks(text) :
                   \E i \in 1..Len(cols) :
                       /\ cols[i].k = IlkName(ilk)
                       /\ cols[i].v.ilk.name = IlkName(ilk)
                       /\ cols[i].v.flipper
                              = BookAddress(text, S_MCD_FLIP_ \o ilk)
                       /\ cols[i].v.adapter.address
                              = BookAddress(text, S_MCD_JOIN_ \o ilk)
                       /\ cols[i].v.pip.address
                              = BookAddress(text, S_PIP_ \o SymbolOf(ilk))
                       /\ cols[i].v.gem.address
                              = BookAddress(text, SymbolOf(ilk))

\* A Config with two collaterals of one symbol and one more collateral was
\* returned.
C3_Witness ==
    /\ loaded.called /\ loaded.value.ok
    /\ Len(loaded.value.config.collaterals) = 3
    /\ \E i, j \in 1..3 :
           /\ i # j
           /\ loaded.value.config.collaterals[i].v.gem.address
                  = loaded.value.config.collaterals[j].v.gem.address

\* The keys Config.from_json requires of the book.
RequiredKeys(text) ==
    CoreBookKeys
      \cup UNION {{SymbolOf(ilk), S_MCD_JOIN_ \o ilk, S_PIP_ \o SymbolOf(ilk)} :
                    ilk \in FlipIlks(text)}

MissingKeys(text) == {k \in RequiredKeys(text) : ~BookHas(text, k)}

\* C4: when one of the 19 core keys or, for a key MCD_FLIP_<ILK>, one of
\* <SYMBOL>, MCD_JOIN_<ILK>, PIP_<SYMBOL> is missing from the book, both
\* Config.from_json and DssDeployment.from_json end in an error and return
\* no object.
C4_MissingKeyIsError ==
    MissingKeys(conf.value) # {} =>
        /\ loaded.called =>
               ~loaded.value.ok /\ "config" \notin DOMAIN loaded.value
        /\ dss.called => ~dss.value.ok /\ "dss" \notin DOMAIN dss.value

\* Both calls were made on a book that has its 19 core keys and lacks one
\* key of a collateral.
C4_Witness ==
    /\ loaded.called /\ dss.called
    /\ MissingKeys(conf.value) # {}
    /\ MissingKeys(conf.value) \cap CoreBookKeys = {}

\* C7: the pip of every collateral of a returned Config wraps
\* conf[PIP_<SYMBOL>]; it is a DSValue on a network id other than '1' and
\* '42', and on '1' and '42' a Univ2LpOSM when the symbol starts with
\* 'UNIV2' and an OSM otherwise.
C7_PipKind ==
    (loaded.called /\ loaded.value.ok) =>
        LET text == conf.value
            cols == loaded.value.config.collaterals
        IN  \A ilk \in FlipIlks(text) :
                \A i \in 1..Len(cols) :
                    cols[i].k = IlkName(ilk) =>
                        /\ cols[i].v.pip.address
                               = BookAddress(text, S_PIP_ \o SymbolOf(ilk))
                        /\ cols[i].v.pip.kind
                               = IF web3_net \notin {"1", "42"}
                                 THEN "DSValue"
                                 ELSE IF StartsWith(SymbolOf(ilk), S_UNIV2)
                                 THEN "Univ2LpOSM"
                                 ELSE "OSM"

\* On kovan a Config was returned that has a UNIV2 collateral and another
\* one.
C7_Witness ==
    /\ loaded.called /\ loaded.value.ok
    /\ web3_net = "42"
    /\ \E i, j \in 1..Len(loaded.value.config.collaterals) :
           /\ loaded.value.config.collaterals[i].v.pip.kind = "Univ2LpOSM"
           /\ loaded.value.config.collaterals[j].v.pip.kind = "OSM"

----------------------------------------------------------------------------
(* Specification of Config.to_json followed by Config.from_json *)

MaxCollaterals == 2

\* Ilk names of the collaterals of a Config.
IlkNames == {<<"E", "T", "H", "-", "A">>, <<"E", "T", "H", "-", "B">>, <<"B", "A", "T">>, <<"U", "_", "V", "-", "A">>}

\* The sequences of at most n different elements of S.
RECURSIVE SeqsUpTo(_, _)
SeqsUpTo(S, n) ==
    IF n = 0 THEN {<< >>}
    ELSE LET shorter == SeqsUpTo(S, n - 1)
         IN  shorter \cup
             UNION {{Append(q, x) :
                        x \in {y \in S : \A i \in 1..Len(q) : q[i] # y}} :
                    q \in shorter}

\* Addresses of the handles of a Config built by the constructor.
GemAddresses == {31, 32}
PipHandles == {None, [kind |-> "DSValue", address |-> 41],
               [kind |-> "DSValue", address |-> 42]}
AdapterAddress(name) ==
    50 + CHOOSE n \in 1..4 : <<<<"E", "T", "H", "-", "A">>, <<"E", "T", "H", "-", "B">>, <<"B", "A", "T">>, <<"U", "_", "V", "-", "A">>>>[n] = name
FlipperAddress(name) == 10 + AdapterAddress(name)

Collaterals(name) ==
    {[ilk |-> [name |-> name],
      gem |-> [kind |-> "DSToken", address |-> g],
      adapter |-> [kind |-> "GemJoin", address |-> AdapterAddress(name)],
      flipper |-> FlipperAddress(name),
      pip |-> p] : g \in GemAddresses, p \in PipHandles}

\* The dicts of collaterals with the names of the sequence ns, in order.
RECURSIVE CollateralDicts(_)
CollateralDicts(ns) ==
    IF ns = << >> THEN {<< >>}
    ELSE {<<[k |-> Head(ns), v |-> c]>> \o rest :
             c \in Collaterals(Head(ns)), rest \in CollateralDicts(Tail(ns))}

\* DssDeployment.Config.__init__
Config(pause, vat, vow, jug, cat, flapper, flopper, pot, dai, dai_join, mkr, spotter, ds_chief, esm, end, proxy_registry, dss_proxy_actions, cdp_manager, dsr_manager, collaterals) ==
    [pause |-> pause,
     vat |-> vat,
     vow |-> vow,
     jug |-> jug,
     cat |-> cat,
     flapper |-> flapper,
     flopper |-> flopper,
     pot |-> pot,
     dai |-> dai,
     dai_join |-> dai_join,
     mkr |-> mkr,
     spotter |-> spotter,
     ds_chief |-> ds_chief,
     esm |-> esm,
     end |-> end,
     proxy_registry |-> proxy_registry,
     dss_proxy_actions |-> dss_proxy_actions,
     cdp_manager |-> cdp_manager,
     dsr_manager |-> dsr_manager,
     collaterals |-> collaterals]

Configs ==
    {Config(1, 2, 3, 4, 5, 6, 7, 8, 9, 10, 11, 12, 13, 14, 15, 16, 17, 18, 19,
            cols) :
        cols \in UNION {CollateralDicts(ns) :
                           ns \in SeqsUpTo(IlkNames, MaxCollaterals)}}

InitRoundTrip ==
    /\ web3_net \in Nets
    /\ config \in {Val(c) : c \in Configs}
    /\ conf = Unset
    /\ loaded = NotCalled
    /\ dss = NotCalled
    /\ files = Idle /\ kicked = Idle /\ active = Idle
    /\ InferIdle /\ SaiIdle

\* conf = config.to_json(); an exception leaves no text.
ConfigToJson ==
    /\ config.set
    /\ conf = Unset
    /\ LET r == Config_to_json(config.value)
       IN  conf' = IF r.ok THEN Val(r.text) ELSE Unset
    /\ UNCHANGED <<web3_net, config, loaded, dss, files, kicked, active,
                   inferVars, saiVars>>

NextRoundTrip == ConfigToJson \/ ConfigFromJson \/ DssFromJson

SpecRoundTrip == InitRoundTrip /\ [][NextRoundTrip]_vars

\* The collateral stored under name in a dict of collaterals.
CollateralOf(cols, name) ==
    (CHOOSE e \in {cols[i] : i \in 1..Len(cols)} : e.k = name).v

PipAddress(col) == IF col.pip = None THEN None ELSE col.pip.address

\* Same addresses of the 19 core handles, same ilk names, and per ilk the
\* same gem, adapter, pip and flipper addresses.
Equivalent(a, b) ==
    /\ \A f \in DOMAIN a \ {"collaterals"} : a[f] = b[f]
    /\ DOMAIN a = DOMAIN b
    /\ {a.collaterals[i].k : i \in 1..Len(a.collaterals)}
           = {b.collaterals[i].k : i \in 1..Len(b.collaterals)}
    /\ \A i \in 1..Len(a.collaterals) :
           LET x == a.collaterals[i].v
               y == CollateralOf(b.collaterals, a.collaterals[i].k)
           IN  /\ x.gem.address = y.gem.address
               /\ x.adapter.address = y.adapter.address
               /\ x.flipper = y.flipper
               /\ PipAddress(x) = PipAddress(y)

\* C1: Config.from_json(web3, c.to_json()) succeeds and returns a Config
\* equivalent to c, for every Config c.
C1_RoundTrip ==
    (config.set /\ conf.set /\ loaded.called) =>
        /\ loaded.value.ok
        /\ Equivalent(loaded.value.config, config.value)

\* The symbol of an ilk name: the name up to the '-' of its suffix.
NameSymbol(name) ==
    IF \E i \in 1..Len(name) : name[i] = "-"
    THEN SubSeq(name, 1, Min({i \in 1..Len(name) : name[i] = "-"}) - 1)
    ELSE name

\* C9: after to_dict, for every collateral k of the Config with symbol S,
\* the entry S is k's gem address and, when k has a pip, the entry PIP_S is
\* k's pip address.
C9_OwnGemAndPip ==
    (config.set /\ conf.set) =>
        \A i \in 1..Len(config.value.collaterals) :
            LET k == config.value.collaterals[i].v
                S == NameSymbol(k.ilk.name)
            IN  /\ BookHas(conf.value, S)
                /\ BookAddress(conf.value, S) = k.gem.address
                /\ k.pip # None =>
                       /\ BookHas(conf.value, S_PIP_ \o S)
                       /\ BookAddress(conf.value, S_PIP_ \o S) = k.pip.address

----------------------------------------------------------------------------
(* Specification of DssDeployment.from_node *)

\* The address-book files shipped in config/.
AddressFiles ==
    {"mainnet-addresses.json", "kovan-addresses.json",
     "testnet-addresses.json"}

\* Contents a shipped file may have: complete books for different
\* collateral types at different addresses, and a book without MCD_VAT.
FileBooks ==
    {BookText(ks, base) :
        ks \in {CoreBookKeys \cup IlkBookKeys(<<"E", "T", "H", "_", "A">>),
                CoreBookKeys \cup IlkBookKeys(<<"U", "S", "D", "C">>)
                    \cup IlkBookKeys(<<"U", "N", "I", "V", "2", "_", "X", "_", "A">>),
                CoreBookKeys \ {K_MCD_VAT}},
        base \in {0, 100}}

InitNode ==
    /\ web3_net \in Nets
    /\ files \in [AddressFiles -> FileBooks]
    /\ config = Unset /\ conf = Unset
    /\ loaded = NotCalled /\ dss = NotCalled
    /\ kicked = Idle /\ active = Idle
    /\ InferIdle /\ SaiIdle

\* DssDeployment.from_node(web3)
DssFromNode ==
    /\ dss = NotCalled
    /\ dss' = Returned(DssDeployment_from_node(web3_net, files))
    /\ UNCHANGED <<web3_net, config, conf, loaded, files, kicked, active,
                   inferVars, saiVars>>

NextNode == DssFromNode

SpecNode == InitNode /\ [][NextNode]_vars

\* C6: from_node returns what DssDeployment.from_json builds from
\* mainnet-addresses.json on network id '1', from kovan-addresses.json on
\* '42' and from testnet-addresses.json on every other id.
C6_FromNodeFile ==
    dss.called =>
        dss.value =
            DssDeployment_from_json(web3_net,
                files[IF web3_net = "1" THEN "mainnet-addresses.json"
                      ELSE IF web3_net = "42" THEN "kovan-addresses.json"
                      ELSE "testnet-addresses.json"])

\* On kovan a deployment was returned while the three files hold three
\* different books.
C6_Witness ==
    /\ dss.called /\ dss.value.ok
    /\ web3_net = "42"
    /\ Cardinality({files[f] : f \in AddressFiles}) = 3

----------------------------------------------------------------------------
(* Specification of DssDeployment.active_auctions *)

MaxAuctions == 1

\* Configs for the deployments: every choice of collaterals, one choice of
\* gem and pip.
AuctionConfigs ==
    {c \in Configs :
        \A i \in 1..Len(c.collaterals) :
            /\ c.collaterals[i].v.gem.address = 31
            /\ c.collaterals[i].v.pip = None}

\* The auction contracts of a deployment.
AuctionContracts(d) ==
    {d.flapper, d.flopper}
        \cup {d.collaterals[i].v.flipper : i \in 1..Len(d.collaterals)}

InitAuctions ==
    /\ web3_net \in Nets
    /\ config \in {Val(c) : c \in AuctionConfigs}
    /\ dss = Returned([ok |-> TRUE,
                       dss |-> DssDeployment(web3_net, config.value)])
    /\ kicked = [a \in AuctionContracts(dss.value.dss) |-> {}]
    /\ active = NotCalled
    /\ conf = Unset /\ loaded = NotCalled /\ files = Idle
    /\ InferIdle /\ SaiIdle

\* Somebody starts an auction on one of the contracts.
Kick ==
    /\ active = NotCalled
    /\ \E a \in DOMAIN kicked, id \in 1..MaxAuctions :
           /\ id \notin kicked[a]
           /\ kicked' = [kicked EXCEPT ![a] = @ \cup {id}]
    /\ UNCHANGED <<web3_net, config, conf, loaded, dss, files, active,
                   inferVars, saiVars>>

\* An auction is settled.
Deal ==
    /\ active = NotCalled
    /\ \E a \in DOMAIN kicked, id \in 1..MaxAuctions :
           /\ id \in kicked[a]
           /\ kicked' = [kicked EXCEPT ![a] = @ \ {id}]
    /\ UNCHANGED <<web3_net, config, conf, loaded, dss, files, active,
                   inferVars, saiVars>>

\* DssDeployment.active_auctions()
ActiveAuctions ==
    /\ active = NotCalled
    /\ active' = Returned(DssDeployment_active_auctions(dss.value.dss, kicked))
    /\ UNCHANGED <<web3_net, config, conf, loaded, dss, files, kicked,
                   inferVars, saiVars>>

NextAuctions == Kick \/ Deal \/ ActiveAuctions

SpecAuctions == InitAuctions /\ [][NextAuctions]_vars

\* C8: active_auctions returns exactly the keys flips, flaps and flops;
\* flips has one entry per collateral, under the collateral's ilk name, with
\* the active auctions of that collateral's flipper; flaps and flops are
\* the active auctions of the flapper and of the flopper; the deployment is
\* as the constructor left it.
C8_ActiveAuctions ==
    active.called =>
        LET r == active.value
            d == dss.value.dss
        IN  /\ DOMAIN r = {"flips", "flaps", "flops"}
            /\ Len(r.flips) = Len(d.collaterals)
            /\ \A i \in 1..Len(d.collaterals) :
                   \E j \in 1..Len(r.flips) :
                       /\ r.flips[j].k = d.collaterals[i].v.ilk.name
                       /\ r.flips[j].v = kicked[d.collaterals[i].v.flipper]
            /\ r.flaps = kicked[d.flapper]
            /\ r.flops = kicked[d.flopper]
            /\ d = DssDeployment(web3_net, config.value)

\* The call was made on a deployment with two collaterals while one flipper
\* and the flapper had an active auction and the other contracts had none.
C8_Witness ==
    /\ active.called
    /\ Len(active.value.flips) = 2
    /\ active.value.flips[1].v # active.value.flips[2].v
    /\ active.value.flaps # {}
    /\ active.value.flops = {}

----------------------------------------------------------------------------
(* The Sai test Deployment on a test node *)

MintedGem == 1000000

MaxTx == 3
MaxTime == 3
MaxSnapshots == 5

\* The chain at the end of Deployment.__init__: contracts deployed,
\* authorities set, approvals given, the GEMs minted, the clock not moved.
DeployedChain == [gem |-> MintedGem, time |-> 0]

\* evm_snapshot: the node stores the state under a fresh id.
evm_snapshot(node) ==
    [node EXCEPT !.snapshots = [i \in DOMAIN @ \cup {node.next} |->
                                   IF i = node.next THEN node.chain ELSE @[i]],
                 !.next = @ + 1,
                 !.result = node.next]

\* evm_revert: the node goes back to the snapshot and drops it and every
\* later one; an unknown id changes nothing and the result is false.
evm_revert(node, id) ==
    IF id \in DOMAIN node.snapshots
    THEN [node EXCEPT !.chain = node.snapshots[id],
                      !.snapshots = [i \in {j \in DOMAIN @ : j < id} |-> @[i]],
                      !.result = TRUE]
    ELSE [node EXCEPT !.result = FALSE]

\* evm_increaseTime
evm_increaseTime(node, seconds) ==
    [node EXCEPT !.chain.time = @ + seconds]

Node == [chain |-> chain, snapshots |-> snapshots, next |-> next_snapshot,
         result |-> reverted]

\* The end of Deployment.__init__: the snapshot is taken.
InitSai ==
    /\ chain = DeployedChain
    /\ snapshots = [i \in {1} |-> DeployedChain]
    /\ next_snapshot = 2
    /\ snapshot_id = 1
    /\ reverted = FALSE
    /\ InferIdle /\ DssIdle

\* Deployment.reset with the second request's id not stored.
Deployment_reset_keep_id(node, id) ==
    LET after_revert == evm_revert(node, id)
        after_snapshot == evm_snapshot(after_revert)
    IN  [node |-> [after_snapshot EXCEPT !.result = after_revert.result],
         snapshot_id |-> id]

\* Deployment.reset: the node after the two requests and the new
\* snapshot_id.
Deployment_reset(node, id) ==
    LET after_revert == evm_revert(node, id)
        after_snapshot == evm_snapshot(after_revert)
    IN  [node |-> [after_snapshot EXCEPT !.result = after_revert.result],
         snapshot_id |-> after_snapshot.result]

\* Deployment.reset()
Reset ==
    /\ next_snapshot <= MaxSnapshots
    /\ LET r == Deployment_reset(Node, snapshot_id)
       IN  /\ chain' = r.node.chain
           /\ snapshots' = r.node.snapshots
           /\ next_snapshot' = r.node.next
           /\ reverted' = r.node.result
           /\ snapshot_id' = r.snapshot_id
    /\ UNCHANGED <<inferVars, dssVars>>

\* Deployment.time_travel_by(seconds)
TimeTravelBy ==
    /\ \E seconds \in 1..MaxTime :
           /\ chain.time + seconds <= MaxTime
           /\ chain' = evm_increaseTime(Node, seconds).chain
    /\ UNCHANGED <<snapshots, next_snapshot, snapshot_id, reverted,
                   inferVars, dssVars>>

\* A transaction that changes contract storage: GEMs are minted or burned.
Transact ==
    /\ \E wad \in {-1, 1} :
           /\ chain.gem + wad \in (MintedGem - MaxTx)..(MintedGem + MaxTx)
           /\ chain' = [chain EXCEPT !.gem = @ + wad]
    /\ UNCHANGED <<snapshots, next_snapshot, snapshot_id, reverted,
                   inferVars, dssVars>>

NextSai == Reset \/ TimeTravelBy \/ Transact

SpecSai == InitSai /\ [][NextSai]_vars

\* C2: every reset() - the steps in which the node takes a snapshot - finds
\* its snapshot alive, leaves the chain in the state at the end of
\* __init__, and leaves snapshot_id naming a live snapshot of that state.
C2_ResetRestores ==
    [][next_snapshot' # next_snapshot =>
           /\ reverted'
           /\ chain' = DeployedChain
           /\ snapshot_id' \in DOMAIN snapshots'
           /\ snapshots'[snapshot_id'] = DeployedChain]_vars

\* A second or later reset() has undone transactions and a time travel.
C2_Witness ==
    /\ next_snapshot > 3
    /\ chain = DeployedChain
    /\ reverted
    /\ snapshot_id = next_snapshot - 1

====
